---- MODULE Spec2Model ----
(***************************************************************************)
(* Model of khirolib.core_py3 (UploadResult and KHIRoLibLite: the methods  *)
(* upload_program, find_section, is_pg_valid, delete_programs, hold_rcp,   *)
(* status, execute_rcp, continue_rcp) and of the script upload_program.py. *)
(*                                                                         *)
(* A Python str is a sequence of one-character strings; the text of a      *)
(* program file is one such sequence with "\n" between its lines, split    *)
(* and joined the way str.split("\n") and "\n".join do.  None is the       *)
(* index 0 for the (1-based) line indices and the string NoneValue for     *)
(* error_message.                                                          *)
(***************************************************************************)
EXTENDS Integers, Sequences, FiniteSets, TLC

VARIABLES
    pc,              \* position in the operation being executed
    program_name,    \* argument of upload_program / find_section
    program_text,    \* argument of upload_program; content of find_section
    open_program,    \* argument of upload_program
    threads,         \* controller: the thread slots, as get_pc_status reports them
    rcp,             \* controller: the continuous-path slot, as get_rcp_status reports it
    pg_status_list,  \* local of upload_program
    rcp_status,      \* local of upload_program
    element,         \* index of the for loop over pg_status_list
    result,          \* the UploadResult of the call
    cmds,            \* commands put on the telnet channel by the call, in order
    section_type,    \* section_type of the last find_section call
    section,         \* value returned by the last find_section call
    ret,             \* value returned by the last all_successful call
    valid,           \* value returned by the last is_pg_valid call
    pg_list,         \* argument of delete_programs
    force,           \* argument of delete_programs
    exit_code,       \* exit code of the upload_program.py process, once it has one
    markers,         \* markers upload_program.py has logged, in order
    prev_status,     \* the statuses the previous upload_program call fetched
    awaiting         \* the command execute_rcp / continue_rcp is suspended on

\* the variables upload_program, find_section and all_successful do not touch
others == <<valid, pg_list, force, exit_code, markers, prev_status, awaiting>>

vars == <<pc, program_name, program_text, open_program, threads, rcp,
          pg_status_list, rcp_status, element, result, cmds,
          section_type, section, ret, others>>

-----------------------------------------------------------------------------
(* Bounds *)

\* Number of lines of the texts find_section is applied to on its own.
MaxLines == 4

\* Number of thread slots the controller reports.
NumThreads == 2

\* Number of lines of the texts is_pg_valid is applied to on its own.
MaxStatements == 2

\* Length of the lists handed to delete_programs.
MaxNames == 2

\* Number of commands logged between two upload_program calls.
MaxLogged == 2

-----------------------------------------------------------------------------
(* str *)

NL == "\n"

NoneValue == "None"

UpperLetters ==
    <<"A", "B", "C", "D", "E", "F", "G", "H", "I", "J", "K", "L", "M",
      "N", "O", "P", "Q", "R", "S", "T", "U", "V", "W", "X", "Y", "Z">>

LowerLetters ==
    <<"a", "b", "c", "d", "e", "f", "g", "h", "i", "j", "k", "l", "m",
      "n", "o", "p", "q", "r", "s", "t", "u", "v", "w", "x", "y", "z">>

\* str.lower() of one character
LowerChar(c) ==
    IF \E k \in DOMAIN UpperLetters : UpperLetters[k] = c
    THEN LowerLetters[CHOOSE k \in DOMAIN UpperLetters : UpperLetters[k] = c]
    ELSE c

\* str.lower()
Lower(s) == [k \in DOMAIN s |-> LowerChar(s[k])]

\* str.startswith(prefix)
StartsWith(s, prefix) ==
    /\ Len(prefix) <= Len(s)
    /\ SubSeq(s, 1, Len(prefix)) = prefix

\* index of the first sep in s at or after position k, 0 when there is none
RECURSIVE IndexFrom(_, _, _)
IndexFrom(s, sep, k) ==
    IF k > Len(s) THEN 0
    ELSE IF s[k] = sep THEN k
    ELSE IndexFrom(s, sep, k + 1)

\* str.split(sep) for a one-character sep: always at least one piece
RECURSIVE SplitOn(_, _)
SplitOn(s, sep) ==
    LET k == IndexFrom(s, sep, 1)
    IN  IF k = 0 THEN <<s>>
        ELSE <<SubSeq(s, 1, k - 1)>> \o SplitOn(SubSeq(s, k + 1, Len(s)), sep)

\* sep.join(pieces) for a one-character sep
RECURSIVE JoinWith(_, _)
JoinWith(pieces, sep) ==
    IF Len(pieces) = 0 THEN <<>>
    ELSE IF Len(pieces) = 1 THEN pieces[1]
    ELSE pieces[1] \o <<sep>> \o JoinWith(Tail(pieces), sep)

-----------------------------------------------------------------------------
(* KHIRoLibLite.find_section *)

DotProgram == <<".", "P", "R", "O", "G", "R", "A", "M", " ">>
DotTrans   == <<".", "T", "R", "A", "N", "S">>
DotJoints  == <<".", "J", "O", "I", "N", "T", "S">>
DotEnd     == <<".", "E", "N", "D">>

SectionTypes == {"program", "trans", "joints"}

\* what find_section gives when it raises ValueError
ValueError == <<"ValueError">>

\* the if/elif chain of the loop body: does this line set section_start
IsOpening(line, name, type) ==
    CASE type = "program" -> StartsWith(line, DotProgram \o name \o <<"(">>)
      [] type = "trans"   -> StartsWith(line, DotTrans)
      [] type = "joints"  -> StartsWith(line, DotJoints)

\* the loop with a .END line closing whether or not a section has started
RECURSIVE ScanLinesAnyEnd(_, _, _, _, _)
ScanLinesAnyEnd(lines, name, type, i, start) ==
    IF i > Len(lines) THEN <<start, 0>>
    ELSE LET s1 == IF IsOpening(lines[i], name, type) THEN i ELSE start
         IN  IF StartsWith(lines[i], DotEnd)
             THEN <<s1, i>>
             ELSE ScanLinesAnyEnd(lines, name, type, i + 1, s1)

\* the for loop, from line i on with section_start = start:
\* <<section_start, section_end>> when the loop ends
RECURSIVE ScanLines(_, _, _, _, _)
ScanLines(lines, name, type, i, start) ==
    IF i > Len(lines) THEN <<start, 0>>
    ELSE LET s1 == IF IsOpening(lines[i], name, type) THEN i ELSE start
         IN  IF s1 # 0 /\ StartsWith(lines[i], DotEnd)
             THEN <<s1, i>>
             ELSE ScanLines(lines, name, type, i + 1, s1)

find_section(content, name, type) ==
    IF type \notin SectionTypes THEN ValueError
    ELSE LET lines == SplitOn(content, NL)
             se    == ScanLines(lines, name, type, 1, 0)
         IN  IF se[1] # 0 /\ se[2] # 0
             THEN JoinWith(SubSeq(lines, se[1], se[2]), NL)
             ELSE <<>>

-----------------------------------------------------------------------------
(* KHIRoLibLite.is_pg_valid *)

Whitespace == {" ", "\t", "\r", "\f"}

Digits == {"0", "1", "2", "3", "4", "5", "6", "7", "8", "9"}

SetCondW == <<"S", "E", "T", "C", "O", "N", "D", "W">>

RECURSIVE LStrip(_)
LStrip(s) ==
    IF Len(s) > 0 /\ s[1] \in Whitespace THEN LStrip(Tail(s)) ELSE s

RECURSIVE RStrip(_)
RStrip(s) ==
    IF Len(s) > 0 /\ s[Len(s)] \in Whitespace
    THEN RStrip(SubSeq(s, 1, Len(s) - 1))
    ELSE s

\* str.strip()
Strip(s) == RStrip(LStrip(s))

\* length of the longest prefix of s without whitespace
RECURSIVE WordLen(_)
WordLen(s) ==
    IF Len(s) = 0 \/ s[1] \in Whitespace THEN 0 ELSE 1 + WordLen(Tail(s))

\* str.split(): the runs of non-whitespace characters
RECURSIVE SplitWhitespace(_)
SplitWhitespace(s) ==
    LET t == LStrip(s)
        n == WordLen(t)
    IN  IF Len(t) = 0 THEN <<>>
        ELSE <<SubSeq(t, 1, n)>> \o SplitWhitespace(SubSeq(t, n + 1, Len(t)))

\* c in s
Contains(s, c) == \E k \in DOMAIN s : s[k] = c

\* s.split(sep, 1) for an s that holds sep
SplitFirst(s, sep) ==
    LET k == IndexFrom(s, sep, 1)
    IN  <<SubSeq(s, 1, k - 1), SubSeq(s, k + 1, Len(s))>>

\* str.isdigit()
IsDigit(s) == Len(s) > 0 /\ \A k \in DOMAIN s : s[k] \in Digits

\* digits, with single underscores between digits only
DigitPart(s) ==
    /\ Len(s) > 0
    /\ \A k \in DOMAIN s : s[k] \in Digits \cup {"_"}
    /\ s[1] # "_" /\ s[Len(s)] # "_"
    /\ \A k \in 1..(Len(s) - 1) : ~(s[k] = "_" /\ s[k + 1] = "_")

Unsigned(s) == IF Len(s) > 0 /\ s[1] \in {"+", "-"} THEN Tail(s) ELSE s

\* [digits][.[digits]] with at least one digit
Mantissa(s) ==
    LET k == IndexFrom(s, ".", 1)
        whole == IF k = 0 THEN s ELSE SubSeq(s, 1, k - 1)
        frac  == IF k = 0 THEN <<>> ELSE SubSeq(s, k + 1, Len(s))
    IN  /\ whole = <<>> \/ DigitPart(whole)
        /\ frac = <<>> \/ DigitPart(frac)
        /\ whole # <<>> \/ frac # <<>>

FirstExponent(s) ==
    LET a == IndexFrom(s, "e", 1)
        b == IndexFrom(s, "E", 1)
    IN  IF a = 0 THEN b ELSE IF b = 0 THEN a ELSE IF a < b THEN a ELSE b

\* float(s) does not raise ValueError, for an s without surrounding whitespace
IsFloat(s) ==
    LET u == Unsigned(s)
        k == FirstExponent(u)
    IN  \/ Lower(u) \in {<<"i", "n", "f">>, <<"n", "a", "n">>,
                         <<"i", "n", "f", "i", "n", "i", "t", "y">>}
        \/ /\ k = 0
           /\ Mantissa(u)
        \/ /\ k # 0
           /\ Mantissa(SubSeq(u, 1, k - 1))
           /\ DigitPart(Unsigned(SubSeq(u, k + 1, Len(u))))

\* the loop body without the test of the parameter index
IsLineValidAnyParam(rawline) ==
    LET line == Strip(rawline)
    IN  IF Len(line) > 0 /\ StartsWith(line, SetCondW)
        THEN LET parts == SplitWhitespace(line)
             IN  IF Len(parts) < 2 \/ ~Contains(parts[2], "=") THEN FALSE
                 ELSE LET pv == SplitFirst(parts[2], "=")
                          values == SplitOn(pv[2], ",")
                      IN  \A k \in DOMAIN values :
                                /\ Strip(values[k]) # <<>>
                                /\ IsFloat(Strip(values[k]))
        ELSE TRUE

\* the body of the loop over the lines: FALSE where it returns False
IsLineValid(rawline) ==
    LET line == Strip(rawline)
    IN  IF Len(line) > 0 /\ StartsWith(line, SetCondW)
        THEN LET parts == SplitWhitespace(line)
             IN  IF Len(parts) < 2 \/ ~Contains(parts[2], "=") THEN FALSE
                 ELSE LET pv == SplitFirst(parts[2], "=")
                          values == SplitOn(pv[2], ",")
                      IN  /\ IsDigit(pv[1])
                          /\ \A k \in DOMAIN values :
                                /\ Strip(values[k]) # <<>>
                                /\ IsFloat(Strip(values[k]))
        ELSE TRUE

is_pg_valid(text) ==
    LET lines == SplitOn(text, NL)
    IN  \A k \in DOMAIN lines : IsLineValid(lines[k])

-----------------------------------------------------------------------------
(* Values of the state *)

NameA == <<"p", "G">>

NoStatus == [name |-> <<>>, is_exist |-> FALSE, is_running |-> FALSE]

NewResult ==
    [program_uploaded       |-> FALSE,
     trans_points_uploaded  |-> FALSE,
     trans_points_exist     |-> FALSE,
     joints_points_uploaded |-> FALSE,
     joints_points_exist    |-> FALSE,
     program_loaded         |-> FALSE,
     error_message          |-> NoneValue]

\* the statuses fetched by the call before this one: none yet
NoPrevious == [pg_status_list |-> <<>>, rcp_status |-> NoStatus]

\* exit_code of a process that has not ended
NotExited == -1

\* nothing deleted, no process run, no earlier call, nothing awaited
OthersAtRest ==
    /\ valid = FALSE
    /\ pg_list = <<>>
    /\ force = FALSE
    /\ exit_code = NotExited
    /\ markers = <<>>
    /\ prev_status = NoPrevious
    /\ awaiting = NoneValue

\* the variables an operation does not use, at rest
Rest ==
    /\ open_program = FALSE
    /\ threads = [t \in 1..NumThreads |-> NoStatus]
    /\ rcp = NoStatus
    /\ pg_status_list = <<>>
    /\ rcp_status = NoStatus
    /\ element = 0
    /\ cmds = <<>>
    /\ OthersAtRest

-----------------------------------------------------------------------------
(* find_section on its own: every text of at most MaxLines lines *)

LineProgramA == DotProgram \o NameA \o <<"(", ")">>
LineProgramB == DotProgram \o NameA \o <<"2", "(", ")">>
LineBody     == <<"H", "O", "M", "E">>

ExtractLines ==
    {LineProgramA, LineProgramB, DotTrans, DotJoints, DotEnd, LineBody}

RECURSIVE SeqsUpTo(_, _)
SeqsUpTo(S, n) ==
    IF n = 0 THEN {<<>>}
    ELSE LET shorter == SeqsUpTo(S, n - 1)
         IN  shorter \cup {Append(q, x) : q \in shorter, x \in S}

ExtractTexts == {JoinWith(q, NL) : q \in SeqsUpTo(ExtractLines, MaxLines)}

InitExtract ==
    /\ pc = "find_section"
    /\ program_name = NameA
    /\ program_text \in ExtractTexts
    /\ section_type \in SectionTypes \cup {"points"}
    /\ section = <<>>
    /\ result = NewResult
    /\ ret = FALSE
    /\ Rest

FindSection ==
    /\ pc = "find_section"
    /\ section' = find_section(program_text, program_name, section_type)
    /\ pc' = IF section' = ValueError THEN "raised" ELSE "found"
    /\ UNCHANGED <<program_name, program_text, open_program, threads, rcp,
                   pg_status_list, rcp_status, element, result, cmds,
                   section_type, ret>>
    /\ UNCHANGED others

NextExtract == FindSection

SpecExtract == InitExtract /\ [][NextExtract]_vars

-----------------------------------------------------------------------------
(* is_pg_valid on its own: every text of at most MaxStatements lines *)

\* SETCONDW lines that pass the three checks
WellFormedLines ==
    {<<"S", "E", "T", "C", "O", "N", "D", "W", " ", "1", "2", "=", "1", ".", "5", ",", "2", ".", "0", ",", "3">>,
     <<"S", "E", "T", "C", "O", "N", "D", "W", "1", " ", "5", "=", "0">>,
     <<" ", " ", "S", "E", "T", "C", "O", "N", "D", "W", " ", "1", "=", "-", "2", "e", "3", " ">>}

\* lines that do not start with SETCONDW
OtherLines ==
    {<<"H", "O", "M", "E">>,
     <<";", " ", "S", "E", "T", "C", "O", "N", "D", "W", " ", "1", "=", "a">>}

\* SETCONDW lines that fail one of the three checks: one token, no = in
\* the second token, a parameter that is not digits, no parameter, a value
\* that is not a number, an empty value (twice)
MalformedLines ==
    {<<"S", "E", "T", "C", "O", "N", "D", "W">>,
     <<"S", "E", "T", "C", "O", "N", "D", "W", " ", "5">>,
     <<"S", "E", "T", "C", "O", "N", "D", "W", " ", "1", "a", "=", "1", ".", "0">>,
     <<"S", "E", "T", "C", "O", "N", "D", "W", " ", "=", "1">>,
     <<"S", "E", "T", "C", "O", "N", "D", "W", " ", "1", "=", "1", ".", "0", ",", "a", "b", "c">>,
     <<"S", "E", "T", "C", "O", "N", "D", "W", " ", "1", "=", "2", ",", ",">>,
     <<"\t", "S", "E", "T", "C", "O", "N", "D", "W", " ", "1", "=">>}

StatementTexts ==
    {JoinWith(q, NL) :
        q \in SeqsUpTo(WellFormedLines \cup OtherLines \cup MalformedLines,
                       MaxStatements)}

InitValid ==
    /\ pc = "is_pg_valid"
    /\ program_name = NameA
    /\ program_text \in StatementTexts
    /\ section_type = "program"
    /\ section = <<>>
    /\ result = NewResult
    /\ ret = FALSE
    /\ Rest

IsPgValid ==
    /\ pc = "is_pg_valid"
    /\ valid' = is_pg_valid(program_text)
    /\ pc' = "validated"
    /\ UNCHANGED <<program_name, program_text, open_program, threads, rcp,
                   pg_status_list, rcp_status, element, result, cmds,
                   section_type, section, ret, pg_list, force, exit_code,
                   markers, prev_status, awaiting>>

NextValid == IsPgValid

SpecValid == InitValid /\ [][NextValid]_vars

-----------------------------------------------------------------------------
(* KHIRoLibLite.upload_program *)

NameOther == <<"X", "1">>

\* a program name as the controller reports it: NameA in another case
NameAReported == <<"P", "g">>

\* the texts handed to upload_program: a main section (valid, invalid, of
\* another program, with its opening line twice, or none), then a TRANS
\* section or none, then a JOINTS section or none
LineSetCondOk  == SetCondW \o <<" ", "1", "=", "2", ".", "5", ",", "3">>
LineSetCondBad == SetCondW \o <<" ", "1", "=", "a">>
LinePoint      == <<"p", "1", " ", "0", " ", "0">>

MainBlocks ==
    {<<>>,
     <<LineProgramA, LineSetCondOk, LineBody, DotEnd>>,
     <<LineProgramA, LineSetCondBad, DotEnd>>,
     <<LineProgramB, LineBody, DotEnd>>,
     <<LineProgramA, LineSetCondBad, LineProgramA, DotEnd>>}

TransBlocks == {<<>>, <<DotTrans, LinePoint, DotEnd>>}

JointsBlocks == {<<>>, <<DotJoints, <<"#">> \o LinePoint, DotEnd>>}

UploadTexts ==
    {JoinWith(m \o t \o j, NL) :
        m \in MainBlocks, t \in TransBlocks, j \in JointsBlocks}

\* a status entry of get_pc_status / get_rcp_status
StatusEntries ==
    {NoStatus} \cup
    [name : {NameAReported, NameOther}, is_exist : {TRUE}, is_running : BOOLEAN]

\* get_pc_status(client, 31): one entry per thread slot, thread_num its place
ThreadStatuses ==
    {[t \in 1..NumThreads |->
        [thread_num |-> t, name |-> f[t].name, is_exist |-> f[t].is_exist,
         is_running |-> f[t].is_running]] :
        f \in [1..NumThreads -> StatusEntries]}

NotValid == "is not valid"
NotFound == "did not found in the file"
ChannelError == "str(e)"

RECURSIVE Pow2(_)
Pow2(n) == IF n = 0 THEN 1 ELSE 2 * Pow2(n - 1)

\* 1 << (thread_num - 1)
ThreadMask(thread_num) == Pow2(thread_num - 1)

Init ==
    /\ pc = "idle"
    /\ program_name = NameA
    /\ program_text = <<>>
    /\ open_program = FALSE
    /\ threads \in ThreadStatuses
    /\ rcp \in StatusEntries
    /\ pg_status_list = <<>>
    /\ rcp_status = NoStatus
    /\ element = 0
    /\ result = NewResult
    /\ cmds = <<>>
    /\ section_type = "program"
    /\ section = <<>>
    /\ ret = FALSE
    /\ OthersAtRest

\* a command on the telnet channel: it is issued, and completes or raises
Issue(op, arg, ok) == cmds' = Append(cmds, [op |-> op, arg |-> arg, ok |-> ok])

\* the handler with the result started afresh
ExceptRollback ==
    /\ result' = [NewResult EXCEPT !.error_message = ChannelError]
    /\ pc' = "returned"

\* the handler around the pushes only: the call goes on to the activation
ExceptFallThrough ==
    /\ result' = [result EXCEPT !.error_message = ChannelError]
    /\ pc' = "open_program"

\* except Exception as e: result.error_message = str(e); return result
Except ==
    /\ result' = [result EXCEPT !.error_message = ChannelError]
    /\ pc' = "returned"

\* upload_program is called: result = UploadResult()
Call ==
    /\ pc = "idle"
    /\ program_name' = NameA
    /\ program_text' \in UploadTexts
    /\ open_program' \in BOOLEAN
    /\ result' = NewResult
    /\ cmds' = <<>>
    /\ pc' = "get_status_pc"
    /\ UNCHANGED <<threads, rcp, pg_status_list, rcp_status, element,
                   section_type, section, ret>>
    /\ UNCHANGED others

\* the query answered from the statuses of the call before, when there is one
GetStatusPcCached ==
    /\ pc = "get_status_pc"
    /\ \E ok \in BOOLEAN :
        /\ Issue("get_pc_status", 31, ok)
        /\ IF ok
           THEN /\ pg_status_list' = IF prev_status.pg_status_list = <<>>
                                     THEN threads
                                     ELSE prev_status.pg_status_list
                /\ pc' = "get_rcp_status"
                /\ UNCHANGED result
           ELSE /\ Except
                /\ UNCHANGED pg_status_list
    /\ UNCHANGED <<program_name, program_text, open_program, threads, rcp,
                   rcp_status, element, section_type, section, ret>>
    /\ UNCHANGED others

\* pg_status_list = self.get_status_pc()
GetStatusPc ==
    /\ pc = "get_status_pc"
    /\ \E ok \in BOOLEAN :
        /\ Issue("get_pc_status", 31, ok)
        /\ IF ok
           THEN /\ pg_status_list' = threads
                /\ pc' = "get_rcp_status"
                /\ UNCHANGED result
           ELSE /\ Except
                /\ UNCHANGED pg_status_list
    /\ UNCHANGED <<program_name, program_text, open_program, threads, rcp,
                   rcp_status, element, section_type, section, ret>>
    /\ UNCHANGED others

\* the query with its failure swallowed: the call goes on with no status
GetRcpStatusOrNone ==
    /\ pc = "get_rcp_status"
    /\ \E ok \in BOOLEAN :
        /\ Issue("get_rcp_status", 0, ok)
        /\ rcp_status' = IF ok THEN rcp ELSE NoStatus
        /\ element' = 1
        /\ pc' = "for_element"
        /\ UNCHANGED result
    /\ UNCHANGED <<program_name, program_text, open_program, threads, rcp,
                   pg_status_list, section_type, section, ret>>
    /\ UNCHANGED others

\* rcp_status = get_rcp_status(self._telnet_client)
GetRcpStatus ==
    /\ pc = "get_rcp_status"
    /\ \E ok \in BOOLEAN :
        /\ Issue("get_rcp_status", 0, ok)
        /\ IF ok
           THEN /\ rcp_status' = rcp
                /\ element' = 1
                /\ pc' = "for_element"
                /\ UNCHANGED result
           ELSE /\ Except
                /\ UNCHANGED <<rcp_status, element>>
    /\ UNCHANGED <<program_name, program_text, open_program, threads, rcp,
                   pg_status_list, section_type, section, ret>>
    /\ UNCHANGED others

\* element.is_exist and element.name.lower() == program_name.lower()
ElementMatches(e, name) == e.is_exist /\ Lower(e.name) = Lower(name)

\* for element in pg_status_list: one turn of the loop, up to its first command
ForElement ==
    /\ pc = "for_element"
    /\ IF element > Len(pg_status_list)
       THEN /\ pc' = "rcp_status"
            /\ UNCHANGED element
       ELSE IF ElementMatches(pg_status_list[element], program_name)
       THEN /\ pc' = IF pg_status_list[element].is_running
                     THEN "pc_abort" ELSE "pc_kill"
            /\ UNCHANGED element
       ELSE /\ element' = element + 1
            /\ UNCHANGED pc
    /\ UNCHANGED <<program_name, program_text, open_program, threads, rcp,
                   pg_status_list, rcp_status, result, cmds, section_type,
                   section, ret>>
    /\ UNCHANGED others

\* pc_abort(self._telnet_client, 1 << (element.thread_num - 1))
PcAbort ==
    /\ pc = "pc_abort"
    /\ \E ok \in BOOLEAN :
        /\ Issue("pc_abort", ThreadMask(pg_status_list[element].thread_num), ok)
        /\ IF ok
           THEN /\ pc' = "pc_kill"
                /\ UNCHANGED result
           ELSE Except
    /\ UNCHANGED <<program_name, program_text, open_program, threads, rcp,
                   pg_status_list, rcp_status, element, section_type, section,
                   ret>>
    /\ UNCHANGED others

\* the loop without the break: on to the next element
AfterPcKillNextElement == "for_element"

\* where the loop goes after pc_kill: break
AfterPcKill == "rcp_status"

\* pc_kill(self._telnet_client, 1 << (element.thread_num - 1)); break
PcKill ==
    /\ pc = "pc_kill"
    /\ \E ok \in BOOLEAN :
        /\ Issue("pc_kill", ThreadMask(pg_status_list[element].thread_num), ok)
        /\ IF ok
           THEN /\ pc' = AfterPcKill
                /\ element' = IF AfterPcKill = "for_element"
                              THEN element + 1 ELSE element
                /\ UNCHANGED result
           ELSE /\ Except
                /\ UNCHANGED element
    /\ UNCHANGED <<program_name, program_text, open_program, threads, rcp,
                   pg_status_list, rcp_status, section_type, section, ret>>
    /\ UNCHANGED others

\* the branch without the test of is_running
AfterRcpStatusNoHold(st, name) ==
    IF ElementMatches(st, name) THEN "kill_rcp" ELSE "main_program"

\* if rcp_status.is_exist: if rcp_status.name.lower() == program_name.lower():
\*     if rcp_status.is_running: rcp_hold(...)
\*     kill_rcp(...)
AfterRcpStatus(st, name) ==
    IF ElementMatches(st, name)
    THEN IF st.is_running THEN "rcp_hold" ELSE "kill_rcp"
    ELSE "main_program"

\* the tests of rcp_status, up to the first command
RcpStatus ==
    /\ pc = "rcp_status"
    /\ pc' = AfterRcpStatus(rcp_status, program_name)
    /\ UNCHANGED <<program_name, program_text, open_program, threads, rcp,
                   pg_status_list, rcp_status, element, result, cmds,
                   section_type, section, ret>>
    /\ UNCHANGED others

\* rcp_hold(self._telnet_client)
RcpHold ==
    /\ pc = "rcp_hold"
    /\ \E ok \in BOOLEAN :
        /\ Issue("rcp_hold", 0, ok)
        /\ IF ok
           THEN /\ pc' = "kill_rcp"
                /\ UNCHANGED result
           ELSE Except
    /\ UNCHANGED <<program_name, program_text, open_program, threads, rcp,
                   pg_status_list, rcp_status, element, section_type, section,
                   ret>>
    /\ UNCHANGED others

\* kill_rcp(self._telnet_client)
KillRcp ==
    /\ pc = "kill_rcp"
    /\ \E ok \in BOOLEAN :
        /\ Issue("kill_rcp", 0, ok)
        /\ IF ok
           THEN /\ pc' = "main_program"
                /\ UNCHANGED result
           ELSE Except
    /\ UNCHANGED <<program_name, program_text, open_program, threads, rcp,
                   pg_status_list, rcp_status, element, section_type, section,
                   ret>>
    /\ UNCHANGED others

\* the branch without the validation
MainBranchNoValidation(pg_string) ==
    IF pg_string # <<>> THEN "upload" ELSE "not_found"

\* if pg_string: if not self.is_pg_valid(pg_string): ... else: ... else: ...
MainBranch(pg_string) ==
    IF pg_string # <<>>
    THEN IF ~is_pg_valid(pg_string) THEN "not_valid" ELSE "upload"
    ELSE "not_found"

\* pg_string = self.find_section(program_text, program_name, "program"),
\* and the branch on it up to the upload or the return
MainProgram ==
    /\ pc = "main_program"
    /\ section_type' = "program"
    /\ section' = find_section(program_text, program_name, "program")
    /\ IF section' = ValueError
       THEN Except
       ELSE CASE MainBranch(section') = "not_valid" ->
                    /\ result' = [result EXCEPT !.error_message = NotValid]
                    /\ pc' = "returned"
              [] MainBranch(section') = "upload" ->
                    /\ pc' = "upload_main"
                    /\ UNCHANGED result
              [] MainBranch(section') = "not_found" ->
                    /\ result' = [result EXCEPT !.error_message = NotFound]
                    /\ pc' = "returned"
    /\ UNCHANGED <<program_name, program_text, open_program, threads, rcp,
                   pg_status_list, rcp_status, element, cmds, ret>>
    /\ UNCHANGED others

\* upload_program(self._telnet_client, bytes(pg_string, "utf-8"))
\* result.program_uploaded = True
UploadMain ==
    /\ pc = "upload_main"
    /\ \E ok \in BOOLEAN :
        /\ Issue("upload_program", section, ok)
        /\ IF ok
           THEN /\ result' = [result EXCEPT !.program_uploaded = TRUE]
                /\ pc' = "trans_points"
           ELSE Except
    /\ UNCHANGED <<program_name, program_text, open_program, threads, rcp,
                   pg_status_list, rcp_status, element, section_type, section,
                   ret>>
    /\ UNCHANGED others

\* trans_string = self.find_section(program_text, program_name, "trans")
TransPoints ==
    /\ pc = "trans_points"
    /\ section_type' = "trans"
    /\ section' = find_section(program_text, program_name, "trans")
    /\ IF section' = ValueError
       THEN Except
       ELSE IF section' # <<>>
       THEN /\ pc' = "upload_trans"
            /\ UNCHANGED result
       ELSE /\ result' = [result EXCEPT !.trans_points_exist = FALSE]
            /\ pc' = "joints_points"
    /\ UNCHANGED <<program_name, program_text, open_program, threads, rcp,
                   pg_status_list, rcp_status, element, cmds, ret>>
    /\ UNCHANGED others

\* the first of the two assignments alone
TransUploadedOnly(r) ==
    [r EXCEPT !.trans_points_uploaded = TRUE]

\* result.trans_points_uploaded = True; result.trans_points_exist = True
TransUploaded(r) ==
    [r EXCEPT !.trans_points_uploaded = TRUE, !.trans_points_exist = TRUE]

\* upload_program(self._telnet_client, bytes(trans_string, "utf-8"))
UploadTrans ==
    /\ pc = "upload_trans"
    /\ \E ok \in BOOLEAN :
        /\ Issue("upload_program", section, ok)
        /\ IF ok
           THEN /\ result' = TransUploaded(result)
                /\ pc' = "joints_points"
           ELSE Except
    /\ UNCHANGED <<program_name, program_text, open_program, threads, rcp,
                   pg_status_list, rcp_status, element, section_type, section,
                   ret>>
    /\ UNCHANGED others

\* joints_string = self.find_section(program_text, program_name, "joints")
JointsPoints ==
    /\ pc = "joints_points"
    /\ section_type' = "joints"
    /\ section' = find_section(program_text, program_name, "joints")
    /\ IF section' = ValueError
       THEN Except
       ELSE IF section' # <<>>
       THEN /\ pc' = "upload_joints"
            /\ UNCHANGED result
       ELSE /\ result' = [result EXCEPT !.joints_points_exist = FALSE]
            /\ pc' = "open_program"
    /\ UNCHANGED <<program_name, program_text, open_program, threads, rcp,
                   pg_status_list, rcp_status, element, cmds, ret>>
    /\ UNCHANGED others

\* result.joints_points_uploaded = True; result.joints_points_exist = True
JointsUploaded(r) ==
    [r EXCEPT !.joints_points_uploaded = TRUE, !.joints_points_exist = TRUE]

\* upload_program(self._telnet_client, bytes(joints_string, "utf-8"))
UploadJoints ==
    /\ pc = "upload_joints"
    /\ \E ok \in BOOLEAN :
        /\ Issue("upload_program", section, ok)
        /\ IF ok
           THEN /\ result' = JointsUploaded(result)
                /\ pc' = "open_program"
           ELSE Except
    /\ UNCHANGED <<program_name, program_text, open_program, threads, rcp,
                   pg_status_list, rcp_status, element, section_type, section,
                   ret>>
    /\ UNCHANGED others

\* the activation whatever open_program is
AfterSectionsAlwaysPrime(open) == "rcp_prime"

\* if open_program: where the call goes after the joints points
AfterSections(open) == IF open THEN "rcp_prime" ELSE "returned"

\* if open_program:
OpenProgram ==
    /\ pc = "open_program"
    /\ pc' = AfterSections(open_program)
    /\ UNCHANGED <<program_name, program_text, open_program, threads, rcp,
                   pg_status_list, rcp_status, element, result, cmds,
                   section_type, section, ret>>
    /\ UNCHANGED others

\* rcp_prime(self._telnet_client, program_name); result.program_loaded = True
RcpPrime ==
    /\ pc = "rcp_prime"
    /\ \E ok \in BOOLEAN :
        /\ Issue("rcp_prime", program_name, ok)
        /\ IF ok
           THEN /\ result' = [result EXCEPT !.program_loaded = TRUE]
                /\ pc' = "returned"
           ELSE Except
    /\ UNCHANGED <<program_name, program_text, open_program, threads, rcp,
                   pg_status_list, rcp_status, element, section_type, section,
                   ret>>
    /\ UNCHANGED others

\* return result: the caller has it, the call's locals are gone
Return ==
    /\ pc = "returned"
    /\ pc' = "idle"
    /\ program_text' = <<>>
    /\ open_program' = FALSE
    /\ pg_status_list' = <<>>
    /\ rcp_status' = NoStatus
    /\ element' = 0
    /\ result' = NewResult
    /\ cmds' = <<>>
    /\ section_type' = "program"
    /\ section' = <<>>
    /\ UNCHANGED <<program_name, threads, rcp, ret>>
    /\ UNCHANGED others

\* between two calls the controller's slots change (another client, the
\* operator, an earlier upload)
Controller ==
    /\ pc = "idle"
    /\ threads' \in ThreadStatuses
    /\ rcp' \in StatusEntries
    /\ UNCHANGED <<pc, program_name, program_text, open_program,
                   pg_status_list, rcp_status, element, result, cmds,
                   section_type, section, ret>>
    /\ UNCHANGED others

Next ==
    \/ Call
    \/ GetStatusPc
    \/ GetRcpStatus
    \/ ForElement
    \/ PcAbort
    \/ PcKill
    \/ RcpStatus
    \/ RcpHold
    \/ KillRcp
    \/ MainProgram
    \/ UploadMain
    \/ TransPoints
    \/ UploadTrans
    \/ JointsPoints
    \/ UploadJoints
    \/ OpenProgram
    \/ RcpPrime
    \/ Return
    \/ Controller

Spec == Init /\ [][Next]_vars

-----------------------------------------------------------------------------
(* KHIRoLibLite.delete_programs: one step per channel command; a command
   that raises leaves the method at once, nothing catches it *)

DeleteNames == {NameA, NameAReported, NameOther}

\* rcp_status.name in pg_list
NameIn(name, list) == \E k \in DOMAIN list : list[k] = name

\* the branch after the status query, without the hold
AfterDeleteStatusNoHold(st, list) ==
    IF st.is_exist /\ NameIn(st.name, list) THEN "del_kill_rcp"
    ELSE "pg_delete"

\* if rcp_status.is_exist: if rcp_status.name in pg_list:
\*     if rcp_status.is_running: rcp_hold(...)
\*     kill_rcp(...)
AfterDeleteStatus(st, list) ==
    IF st.is_exist /\ NameIn(st.name, list)
    THEN IF st.is_running THEN "del_rcp_hold" ELSE "del_kill_rcp"
    ELSE "pg_delete"

InitDelete ==
    /\ pc = "delete_programs"
    /\ program_name = NameA
    /\ program_text = <<>>
    /\ open_program = FALSE
    /\ threads = [t \in 1..NumThreads |-> NoStatus]
    /\ rcp \in StatusEntries
    /\ pg_status_list = <<>>
    /\ rcp_status = NoStatus
    /\ element = 0
    /\ result = NewResult
    /\ cmds = <<>>
    /\ section_type = "program"
    /\ section = <<>>
    /\ ret = FALSE
    /\ valid = FALSE
    /\ pg_list \in SeqsUpTo(DeleteNames, MaxNames)
    /\ force \in BOOLEAN
    /\ exit_code = NotExited
    /\ markers = <<>>
    /\ prev_status = NoPrevious
    /\ awaiting = NoneValue

DeleteUnchanged ==
    UNCHANGED <<program_name, program_text, open_program, threads, rcp,
                pg_status_list, result, section_type, section, ret, valid,
                pg_list, force, exit_code, markers, prev_status, awaiting>>

\* if len(pg_list) == 0: return; if force: ...
DeletePrograms ==
    /\ pc = "delete_programs"
    /\ pc' = IF Len(pg_list) = 0 THEN "deleted"
             ELSE IF force THEN "del_get_rcp_status"
             ELSE "pg_delete"
    /\ element' = 1
    /\ UNCHANGED <<rcp_status, cmds>>
    /\ DeleteUnchanged

\* rcp_status = get_rcp_status(self._telnet_client)
DeleteGetRcpStatus ==
    /\ pc = "del_get_rcp_status"
    /\ \E ok \in BOOLEAN :
        /\ Issue("get_rcp_status", 0, ok)
        /\ IF ok
           THEN /\ rcp_status' = rcp
                /\ pc' = AfterDeleteStatus(rcp, pg_list)
           ELSE /\ pc' = "raised"
                /\ UNCHANGED rcp_status
    /\ UNCHANGED element
    /\ DeleteUnchanged

\* rcp_hold(self._telnet_client)
DeleteRcpHold ==
    /\ pc = "del_rcp_hold"
    /\ \E ok \in BOOLEAN :
        /\ Issue("rcp_hold", 0, ok)
        /\ pc' = IF ok THEN "del_kill_rcp" ELSE "raised"
    /\ UNCHANGED <<rcp_status, element>>
    /\ DeleteUnchanged

\* kill_rcp(self._telnet_client)
DeleteKillRcp ==
    /\ pc = "del_kill_rcp"
    /\ \E ok \in BOOLEAN :
        /\ Issue("kill_rcp", 0, ok)
        /\ pc' = IF ok THEN "pg_delete" ELSE "raised"
    /\ UNCHANGED <<rcp_status, element>>
    /\ DeleteUnchanged

\* for pg_name in pg_list: pg_delete(self._telnet_client, pg_name)
PgDelete ==
    /\ pc = "pg_delete"
    /\ \E ok \in BOOLEAN :
        /\ Issue("pg_delete", pg_list[element], ok)
        /\ IF ok
           THEN /\ element' = element + 1
                /\ pc' = IF element = Len(pg_list) THEN "deleted"
                         ELSE "pg_delete"
           ELSE /\ pc' = "raised"
                /\ UNCHANGED element
    /\ UNCHANGED rcp_status
    /\ DeleteUnchanged

NextDelete ==
    \/ DeletePrograms
    \/ DeleteGetRcpStatus
    \/ DeleteRcpHold
    \/ DeleteKillRcp
    \/ PgDelete

SpecDelete == InitDelete /\ [][NextDelete]_vars

-----------------------------------------------------------------------------
(* upload_program.py: the script run as a process.  The upload it starts is
   upload_program above, with open_program=True; the position of main after
   the upload is "main_success" or "main_error", the value of success *)

SUCCESS_MARKER == "[UPLOAD_SUCCESS]"
ERROR_MARKER   == "[UPLOAD_ERROR]"
PROGRAM_MARKER == "[PROGRAM_NAME]"

InitCli ==
    /\ pc = "main"
    /\ program_name = NameA
    /\ program_text \in UploadTexts
    /\ open_program = FALSE
    /\ threads \in ThreadStatuses
    /\ rcp \in StatusEntries
    /\ pg_status_list = <<>>
    /\ rcp_status = NoStatus
    /\ element = 0
    /\ result = NewResult
    /\ cmds = <<>>
    /\ section_type = "program"
    /\ section = <<>>
    /\ ret = FALSE
    /\ OthersAtRest

CliUnchanged ==
    UNCHANGED <<program_name, program_text, threads, rcp, pg_status_list,
                rcp_status, element, cmds, section_type, section, ret, valid,
                pg_list, force, prev_status, awaiting>>

\* main: if len(sys.argv) != 3: return, and the process ends with status 0
Main ==
    /\ pc = "main"
    /\ \E argc \in {2, 3} :
        IF argc # 3
        THEN /\ pc' = "exited"
             /\ exit_code' = 0
        ELSE /\ pc' = "upload_program_to_robot"
             /\ UNCHANGED exit_code
    /\ UNCHANGED <<open_program, result, markers>>
    /\ CliUnchanged

\* upload_program_to_robot up to the call of robot.upload_program: the file
\* is missing, or reading it or KHIRoLibLite(robot_ip) raises (False is
\* returned), or the upload is called
UploadProgramToRobot ==
    /\ pc = "upload_program_to_robot"
    /\ \E called \in BOOLEAN :
        IF called
        THEN /\ open_program' = TRUE
             /\ result' = NewResult
             /\ pc' = "get_status_pc"
        ELSE /\ pc' = "main_error"
             /\ UNCHANGED <<open_program, result>>
    /\ UNCHANGED <<exit_code, markers>>
    /\ CliUnchanged

\* the script's test of the result, on program_uploaded alone
UploadSucceeded(r) == r.program_uploaded

\* if not result.program_uploaded: logger.error(ERROR_MARKER ...); return
\* False; else logger.info(PROGRAM_MARKER ...); return True
UploadProgramToRobotResult ==
    /\ pc = "returned"
    /\ IF UploadSucceeded(result)
       THEN /\ markers' = Append(markers, PROGRAM_MARKER)
            /\ pc' = "main_success"
       ELSE /\ markers' = Append(markers, ERROR_MARKER)
            /\ pc' = "main_error"
    /\ UNCHANGED <<open_program, result, exit_code>>
    /\ CliUnchanged

\* if success: logger.info(SUCCESS_MARKER ...); sys.exit(0)
\* else: logger.error(ERROR_MARKER ...); sys.exit(1)
MainExit ==
    /\ pc \in {"main_success", "main_error"}
    /\ IF pc = "main_success"
       THEN /\ markers' = Append(markers, SUCCESS_MARKER)
            /\ exit_code' = 0
       ELSE /\ markers' = Append(markers, ERROR_MARKER)
            /\ exit_code' = 1
    /\ pc' = "exited"
    /\ UNCHANGED <<open_program, result>>
    /\ CliUnchanged

\* except KeyboardInterrupt: sys.exit(2), wherever the process stands
KeyboardInterrupt ==
    /\ pc # "exited"
    /\ pc' = "exited"
    /\ exit_code' = 2
    /\ UNCHANGED <<open_program, result, markers>>
    /\ CliUnchanged

NextCli ==
    \/ Main
    \/ UploadProgramToRobot
    \/ GetStatusPc
    \/ GetRcpStatus
    \/ ForElement
    \/ PcAbort
    \/ PcKill
    \/ RcpStatus
    \/ RcpHold
    \/ KillRcp
    \/ MainProgram
    \/ UploadMain
    \/ TransPoints
    \/ UploadTrans
    \/ JointsPoints
    \/ UploadJoints
    \/ OpenProgram
    \/ RcpPrime
    \/ UploadProgramToRobotResult
    \/ MainExit
    \/ KeyboardInterrupt

SpecCli == InitCli /\ [][NextCli]_vars

-----------------------------------------------------------------------------
(* A sequence of upload_program calls on one instance, with the statuses
   each call fetched remembered for the next: the same file is uploaded
   again and again while the first thread slot and the continuous-path
   slot start and stop the program *)

\* the file of these calls: the three sections, the main one valid
RepeatedText ==
    JoinWith(<<LineProgramA, LineSetCondOk, LineBody, DotEnd,
               DotTrans, LinePoint, DotEnd,
               DotJoints, <<"#">> \o LinePoint, DotEnd>>, NL)

\* a slot without the program, or with it, running or not
SlotEntries ==
    {NoStatus} \cup
    [name : {NameAReported}, is_exist : {TRUE}, is_running : BOOLEAN]

\* the thread slots, the first one as chosen and the others empty
FirstSlot(e) ==
    [t \in 1..NumThreads |->
        IF t = 1
        THEN [thread_num |-> t, name |-> e.name, is_exist |-> e.is_exist,
              is_running |-> e.is_running]
        ELSE [thread_num |-> t, name |-> NoStatus.name,
              is_exist |-> NoStatus.is_exist,
              is_running |-> NoStatus.is_running]]

InitCalls ==
    /\ pc = "idle"
    /\ program_name = NameA
    /\ program_text = <<>>
    /\ open_program = FALSE
    /\ \E e \in SlotEntries : threads = FirstSlot(e)
    /\ rcp \in SlotEntries
    /\ pg_status_list = <<>>
    /\ rcp_status = NoStatus
    /\ element = 0
    /\ result = NewResult
    /\ cmds = <<>>
    /\ section_type = "program"
    /\ section = <<>>
    /\ ret = FALSE
    /\ OthersAtRest

\* upload_program is called with the file: result = UploadResult()
CallAgain ==
    /\ pc = "idle"
    /\ program_name' = NameA
    /\ program_text' = RepeatedText
    /\ open_program' = TRUE
    /\ result' = NewResult
    /\ cmds' = <<>>
    /\ pc' = "get_status_pc"
    /\ UNCHANGED <<threads, rcp, pg_status_list, rcp_status, element,
                   section_type, section, ret>>
    /\ UNCHANGED others

\* return result: the locals are gone; what the call fetched is remembered
ReturnRemembered ==
    /\ pc = "returned"
    /\ pc' = "idle"
    /\ program_text' = <<>>
    /\ open_program' = FALSE
    /\ pg_status_list' = <<>>
    /\ rcp_status' = NoStatus
    /\ element' = 0
    /\ result' = NewResult
    /\ cmds' = <<>>
    /\ section_type' = "program"
    /\ section' = <<>>
    /\ prev_status' = [pg_status_list |-> pg_status_list,
                       rcp_status |-> rcp_status]
    /\ UNCHANGED <<program_name, threads, rcp, ret, valid, pg_list, force,
                   exit_code, markers, awaiting>>

\* between two calls the first thread slot and the continuous-path slot
\* change
SlotsChange ==
    /\ pc = "idle"
    /\ \E e \in SlotEntries : threads' = FirstSlot(e)
    /\ rcp' \in SlotEntries
    /\ UNCHANGED <<pc, program_name, program_text, open_program,
                   pg_status_list, rcp_status, element, result, cmds,
                   section_type, section, ret>>
    /\ UNCHANGED others

NextCalls ==
    \/ CallAgain
    \/ GetStatusPc
    \/ GetRcpStatus
    \/ ForElement
    \/ PcAbort
    \/ PcKill
    \/ RcpStatus
    \/ RcpHold
    \/ KillRcp
    \/ MainProgram
    \/ UploadMain
    \/ TransPoints
    \/ UploadTrans
    \/ JointsPoints
    \/ UploadJoints
    \/ OpenProgram
    \/ RcpPrime
    \/ ReturnRemembered
    \/ SlotsChange

SpecCalls == InitCalls /\ [][NextCalls]_vars

-----------------------------------------------------------------------------
(* Tasks of one event loop sharing one KHIRoLibLite instance: one task awaits
   execute_rcp or continue_rcp, the others call the instance's synchronous
   methods, which run from call to return without yielding to the loop.
   awaiting is the command whose response the suspended task waits for *)

InitAsync ==
    /\ pc = "idle"
    /\ program_name = NameA
    /\ program_text = <<>>
    /\ open_program = FALSE
    /\ \E e \in SlotEntries : threads = FirstSlot(e)
    /\ rcp \in SlotEntries
    /\ pg_status_list = <<>>
    /\ rcp_status = NoStatus
    /\ element = 0
    /\ result = NewResult
    /\ cmds = <<>>
    /\ section_type = "program"
    /\ section = <<>>
    /\ ret = FALSE
    /\ OthersAtRest

AsyncUnchanged ==
    UNCHANGED <<pc, program_name, program_text, open_program, threads, rcp,
                pg_status_list, rcp_status, element, result, section_type,
                section, ret, valid, pg_list, force, exit_code, markers,
                prev_status>>

\* await rcp_execute(self._telnet_client, program_name, blocking): the
\* command is sent and the task is suspended until the controller has run
\* the program (at once when not blocking)
ExecuteRcp ==
    /\ pc = "idle"
    /\ Len(cmds) < MaxLogged
    /\ awaiting = NoneValue
    /\ Issue("rcp_execute", program_name, TRUE)
    /\ \E blocking \in BOOLEAN :
        awaiting' = IF blocking THEN "rcp_execute" ELSE NoneValue
    /\ AsyncUnchanged

\* await rcp_continue(self._telnet_client)
ContinueRcp ==
    /\ pc = "idle"
    /\ Len(cmds) < MaxLogged
    /\ awaiting = NoneValue
    /\ Issue("rcp_continue", 0, TRUE)
    /\ awaiting' = "rcp_continue"
    /\ AsyncUnchanged

\* the controller answers and the suspended task goes on
Resume ==
    /\ pc = "idle"
    /\ awaiting # NoneValue
    /\ awaiting' = NoneValue
    /\ UNCHANGED cmds
    /\ AsyncUnchanged

\* rcp_hold(self._telnet_client), called by another task
HoldRcp ==
    /\ pc = "idle"
    /\ Len(cmds) < MaxLogged
    /\ \E ok \in BOOLEAN : Issue("rcp_hold", 0, ok)
    /\ UNCHANGED awaiting
    /\ AsyncUnchanged

\* return get_rcp_status(self._telnet_client), called by another task
Status ==
    /\ pc = "idle"
    /\ Len(cmds) < MaxLogged
    /\ \E ok \in BOOLEAN : Issue("get_rcp_status", 0, ok)
    /\ UNCHANGED awaiting
    /\ AsyncUnchanged

NextAsync ==
    \/ ExecuteRcp
    \/ ContinueRcp
    \/ Resume
    \/ HoldRcp
    \/ Status
    \/ CallAgain
    \/ GetStatusPc
    \/ GetRcpStatus
    \/ ForElement
    \/ PcAbort
    \/ PcKill
    \/ RcpStatus
    \/ RcpHold
    \/ KillRcp
    \/ MainProgram
    \/ UploadMain
    \/ TransPoints
    \/ UploadTrans
    \/ JointsPoints
    \/ UploadJoints
    \/ OpenProgram
    \/ RcpPrime
    \/ Return

SpecAsync == InitAsync /\ [][NextAsync]_vars

-----------------------------------------------------------------------------
(* UploadResult.all_successful on its own: every UploadResult *)

\* the predicate without the joints points
all_successful_without_joints(r) ==
    /\ r.program_uploaded
    /\ \/ (r.trans_points_uploaded /\ r.trans_points_exist)
       \/ ~r.trans_points_exist

all_successful(r) ==
    /\ r.program_uploaded
    /\ \/ (r.trans_points_uploaded /\ r.trans_points_exist)
       \/ ~r.trans_points_exist
    /\ \/ (r.joints_points_uploaded /\ r.joints_points_exist)
       \/ ~r.joints_points_exist

UploadResults ==
    [program_uploaded       : BOOLEAN,
     trans_points_uploaded  : BOOLEAN,
     trans_points_exist     : BOOLEAN,
     joints_points_uploaded : BOOLEAN,
     joints_points_exist    : BOOLEAN,
     program_loaded         : BOOLEAN,
     error_message          : {NoneValue, NotValid, NotFound, ChannelError}]

InitResult ==
    /\ pc = "all_successful"
    /\ program_name = NameA
    /\ program_text = <<>>
    /\ section_type = "program"
    /\ section = <<>>
    /\ result \in UploadResults
    /\ ret = FALSE
    /\ Rest

AllSuccessful ==
    /\ pc = "all_successful"
    /\ ret' = all_successful(result)
    /\ pc' = "answered"
    /\ UNCHANGED <<program_name, program_text, open_program, threads, rcp,
                   pg_status_list, rcp_status, element, result, cmds,
                   section_type, section>>
    /\ UNCHANGED others

NextResult == AllSuccessful

SpecResult == InitResult /\ [][NextResult]_vars

-----------------------------------------------------------------------------
(* Properties of upload_program *)

Returned == pc = "returned"

\* the sections of the text of the call, as the call extracts them
MainSection   == find_section(program_text, program_name, "program")
TransSection  == find_section(program_text, program_name, "trans")
JointsSection == find_section(program_text, program_name, "joints")

Issued(op) == {k \in DOMAIN cmds : cmds[k].op = op}

\* the pushes of one section
Pushes(payload) ==
    {k \in Issued("upload_program") : cmds[k].arg = payload}

Failed == {k \in DOMAIN cmds : ~cmds[k].ok}

C2_FailureEndsCall ==
    /\ [](\A k \in Failed :
            /\ k = Len(cmds)
            /\ pc = "returned"
            /\ result.error_message = ChannelError)
    /\ [][(Len(cmds') = Len(cmds) + 1 /\ ~cmds'[Len(cmds')].ok)
            => /\ pc' = "returned"
               /\ result' = [result EXCEPT !.error_message = ChannelError]]_vars

\* the push of the JOINTS section raised after the Program and TRANS sections
\* were pushed
C2_Witness ==
    /\ Returned
    /\ Len(cmds) \in Failed
    /\ Len(cmds) \in Pushes(JointsSection)
    /\ result.program_uploaded
    /\ result.trans_points_uploaded
    /\ ~result.joints_points_uploaded

\* C3: a returned result for which all_successful() is true carries no
\* error_message
C3_SuccessfulHasNoError ==
    (Returned /\ all_successful(result)) => result.error_message = NoneValue

\* the TRANS step is reached once the Program section is pushed; the JOINTS
\* step once the TRANS step is through
TransReached == result.program_uploaded

JointsReached ==
    /\ TransReached
    /\ Pushes(TransSection) \cap Failed = {}

\* one step's part of C4
StepAccounted(reached, payload, exist, uploaded) ==
    reached =>
        IF payload # <<>>
        THEN /\ exist
             /\ uploaded <=> (\E k \in Pushes(payload) : cmds[k].ok)
        ELSE /\ ~exist
             /\ ~uploaded
             /\ Pushes(payload) = {}

\* C4: for the TRANS and the JOINTS step the call reached: with the section in
\* the text, its exist flag is true and its uploaded flag tells whether the
\* push succeeded; without it both flags are false and nothing is pushed for
\* it
C4_ExistFlagSetWhenSectionPresent ==
    Returned =>
        /\ StepAccounted(TransReached, TransSection,
                         result.trans_points_exist,
                         result.trans_points_uploaded)
        /\ StepAccounted(JointsReached, JointsSection,
                         result.joints_points_exist,
                         result.joints_points_uploaded)

\* the slots the status queries report as existing, running and named
\* program_name
RunningThreads ==
    {t \in DOMAIN pg_status_list :
        /\ pg_status_list[t].is_exist
        /\ pg_status_list[t].is_running
        /\ Lower(pg_status_list[t].name) = Lower(program_name)}

RcpRunning ==
    /\ rcp_status.is_exist
    /\ rcp_status.is_running
    /\ Lower(rcp_status.name) = Lower(program_name)

\* command op with argument arg was issued before the k-th command
IssuedBefore(op, arg, k) ==
    \E i \in Issued(op) : i < k /\ cmds[i].arg = arg

\* C5: before the first upload command, every thread slot reported as
\* existing, running and named program_name has been aborted and killed, and
\* so has the continuous-path slot (held and killed)
C5_NoUploadWhileRunning ==
    \A k \in Issued("upload_program") :
        /\ \A t \in RunningThreads :
              /\ IssuedBefore("pc_abort",
                              ThreadMask(pg_status_list[t].thread_num), k)
              /\ IssuedBefore("pc_kill",
                              ThreadMask(pg_status_list[t].thread_num), k)
        /\ RcpRunning =>
              /\ IssuedBefore("rcp_hold", 0, k)
              /\ IssuedBefore("kill_rcp", 0, k)

\* the stage of the k-th command
Stage(k) ==
    CASE cmds[k].op \in {"get_pc_status", "get_rcp_status"} -> 1
      [] cmds[k].op \in {"pc_abort", "pc_kill"} -> 2
      [] cmds[k].op \in {"rcp_hold", "kill_rcp"} -> 3
      [] cmds[k].op = "upload_program" ->
            IF StartsWith(cmds[k].arg, DotProgram) THEN 4
            ELSE IF StartsWith(cmds[k].arg, DotTrans) THEN 5
            ELSE IF StartsWith(cmds[k].arg, DotJoints) THEN 6
            ELSE 0
      [] cmds[k].op = "rcp_prime" -> 7

\* C6: the commands of a call are issued in stage order (status queries,
\* thread abort/kill, hold/kill-RCP, Program push, TRANS push, JOINTS push,
\* prime), each push at most once, both status queries before anything else,
\* and a command is issued only when every earlier one completed
C6_StageOrder ==
    /\ \A k \in DOMAIN cmds : Stage(k) # 0
    /\ \A i, j \in DOMAIN cmds :
          i < j => /\ Stage(i) <= Stage(j)
                   /\ Stage(j) >= 4 => Stage(i) < Stage(j)
                   /\ cmds[i].ok
    /\ \A k \in DOMAIN cmds :
          Stage(k) > 1 => /\ k > 2
                          /\ cmds[1].op = "get_pc_status"
                          /\ cmds[2].op = "get_rcp_status"

\* a call that went through all seven stages
C6_Witness ==
    /\ Returned
    /\ \A st \in 1..7 : \E k \in DOMAIN cmds : Stage(k) = st
    /\ Failed = {}

\* C7: program_loaded is true only if open_program was true, the Program
\* section was pushed, no command of the call failed and the prime command
\* completed; without open_program no prime command is issued; a prime command
\* that fails leaves program_loaded false and program_uploaded true and sets
\* error_message
C7_ProgramLoaded ==
    /\ result.program_loaded =>
          /\ open_program
          /\ result.program_uploaded
          /\ Failed = {}
          /\ \E k \in Issued("rcp_prime") : cmds[k].ok
    /\ ~open_program => Issued("rcp_prime") = {}
    /\ \A k \in Issued("rcp_prime") \cap Failed :
          /\ ~result.program_loaded
          /\ result.error_message # NoneValue
          /\ result.program_uploaded

\* the prime command failed after all three sections were pushed
C7_Witness ==
    /\ Returned
    /\ Issued("rcp_prime") \cap Failed # {}
    /\ result.program_uploaded
    /\ result.trans_points_uploaded
    /\ result.joints_points_uploaded
    /\ ~result.program_loaded

-----------------------------------------------------------------------------
(* Properties of all_successful *)

\* C8: all_successful() is program_uploaded and (not trans_points_exist or
\* trans_points_uploaded) and (not joints_points_exist or
\* joints_points_uploaded), whatever program_loaded and error_message are
C8_AllSuccessfulTable ==
    pc = "answered" =>
        (ret <=> /\ result.program_uploaded
                 /\ ~result.trans_points_exist \/ result.trans_points_uploaded
                 /\ ~result.joints_points_exist \/ result.joints_points_uploaded)

\* true for a result with both point sections pushed, program_loaded false and
\* an error_message
C8_Witness ==
    /\ pc = "answered"
    /\ ret
    /\ result.trans_points_exist
    /\ result.joints_points_exist
    /\ ~result.program_loaded
    /\ result.error_message # NoneValue

-----------------------------------------------------------------------------
(* Properties of find_section *)

TextLines == SplitOn(program_text, NL)

\* the lines that match the opening delimiter of section_type
Openings ==
    {i \in DOMAIN TextLines :
        IsOpening(TextLines[i], program_name, section_type)}

\* the lines beginning with .END
Ends == {i \in DOMAIN TextLines : StartsWith(TextLines[i], DotEnd)}

Min(S) == CHOOSE x \in S : \A y \in S : x <= y

EndsAfter(i) == {e \in Ends : e > i}

Extracted == pc = "found" /\ section_type \in SectionTypes

\* C9: the block returned starts at the first line matching the opening
\* delimiter and ends with the first later .END line, its lines unchanged and
\* in order, whatever other opening delimiters the text holds
C9_FirstOpeningWins ==
    (Extracted /\ Openings # {} /\ EndsAfter(Min(Openings)) # {}) =>
        section = JoinWith(SubSeq(TextLines, Min(Openings),
                                  Min(EndsAfter(Min(Openings)))), NL)

\* C10: find_section does not raise for the three section types; it returns
\* the empty string when no line matches the opening delimiter and when no
\* .END line follows the opening delimiter, and a .END line before the opening
\* delimiter does not close the section: with a .END line after the opening
\* delimiter the result is a block that ends with that line
C10_EmptyWhenNotDelimited ==
    /\ section_type \in SectionTypes => pc # "raised"
    /\ Extracted =>
          /\ Openings = {} => section = <<>>
          /\ (Openings # {} /\ EndsAfter(Min(Openings)) = {}) => section = <<>>
          /\ (Openings # {} /\ EndsAfter(Min(Openings)) # {}) =>
                LET block == SplitOn(section, NL)
                IN  /\ section # <<>>
                    /\ block[Len(block)] =
                          TextLines[Min(EndsAfter(Min(Openings)))]

\* a text with a .END line before the opening delimiter and none after it
C10_Witness ==
    /\ Extracted
    /\ Openings # {}
    /\ \E e \in Ends : e < Min(Openings)
    /\ EndsAfter(Min(Openings)) = {}
    /\ section = <<>>

-----------------------------------------------------------------------------
(* Properties of is_pg_valid *)

\* a line that, trimmed, starts with SETCONDW
IsStatement(line) == StartsWith(Strip(line), SetCondW)

Tokens(line) == SplitWhitespace(Strip(line))

\* at least two tokens, with = in the second
HasAssignment(line) ==
    Len(Tokens(line)) >= 2 /\ Contains(Tokens(line)[2], "=")

\* the part of the second token before the first = is digits
HasDigitParameter(line) ==
    LET tok == Tokens(line)[2]
        eq  == IndexFrom(tok, "=", 1)
    IN  /\ eq > 1
        /\ \A k \in 1..(eq - 1) : tok[k] \in Digits

\* every value after the first =, between commas, is a number
HasNumericValues(line) ==
    LET tok == Tokens(line)[2]
        eq  == IndexFrom(tok, "=", 1)
        values == SplitOn(SubSeq(tok, eq + 1, Len(tok)), ",")
    IN  \A k \in DOMAIN values : values[k] # <<>> /\ IsFloat(values[k])

PassesChecks(line) ==
    HasAssignment(line) /\ HasDigitParameter(line) /\ HasNumericValues(line)

-----------------------------------------------------------------------------
(* Properties of delete_programs *)

\* the commands of a forced call before its deletes, from the state of the
\* controller
DeleteStops ==
    IF force
    THEN <<[op |-> "get_rcp_status", arg |-> 0]>>
         \o (IF rcp.is_exist /\ (\E k \in DOMAIN pg_list : pg_list[k] = rcp.name)
             THEN (IF rcp.is_running THEN <<[op |-> "rcp_hold", arg |-> 0]>>
                   ELSE <<>>)
                  \o <<[op |-> "kill_rcp", arg |-> 0]>>
             ELSE <<>>)
    ELSE <<>>

\* the commands of a call that meets no failure
DeleteExpected ==
    IF pg_list = <<>> THEN <<>>
    ELSE DeleteStops
         \o [k \in DOMAIN pg_list |-> [op |-> "pg_delete", arg |-> pg_list[k]]]

\* C12: the commands of delete_programs are, in this order, the status
\* query, hold and kill-RCP of a forced call (hold only for a running
\* continuous-path program, both only if it exists with a name of the
\* list), then one delete per name in list order; the call goes no further
\* than its first failing command, which reaches the caller; a call that
\* returns has issued them all; without force there is no hold or kill-RCP
C12_DeleteOrder ==
    /\ Len(cmds) <= Len(DeleteExpected)
    /\ \A k \in DOMAIN cmds :
        /\ cmds[k].op = DeleteExpected[k].op
        /\ cmds[k].arg = DeleteExpected[k].arg
        /\ k < Len(cmds) => cmds[k].ok
    /\ pc = "deleted" =>
        /\ Len(cmds) = Len(DeleteExpected)
        /\ \A k \in DOMAIN cmds : cmds[k].ok
    /\ pc = "raised" <=> (cmds # <<>> /\ ~cmds[Len(cmds)].ok)
    /\ ~force => \A k \in DOMAIN cmds : cmds[k].op = "pg_delete"

\* the forced deletion of two programs, the first running on the
\* continuous path: hold, kill-RCP, then the two deletes
C12_Witness ==
    /\ pc = "deleted"
    /\ force
    /\ rcp.is_exist /\ rcp.is_running
    /\ Len(pg_list) = 2
    /\ pg_list[1] = rcp.name
    /\ pg_list[2] # rcp.name
    /\ [k \in DOMAIN cmds |-> cmds[k].op]
         = <<"get_rcp_status", "rcp_hold", "kill_rcp", "pg_delete", "pg_delete">>
    /\ cmds[4].arg = pg_list[1]
    /\ cmds[5].arg = pg_list[2]

-----------------------------------------------------------------------------
(* Properties of the script *)

\* the process has ended after an upload that returned its result
ExitedAfterUpload == pc = "exited" /\ cmds # <<>> /\ exit_code \in {0, 1}

Marked(marker) == \E k \in DOMAIN markers : markers[k] = marker

\* C13: the process exits 0 with [UPLOAD_SUCCESS] only when the result's
\* all_successful() is true and no error_message was recorded, and exits 1
\* with [UPLOAD_ERROR] whenever the upload recorded a failure, a failure of
\* the Trans, Joints or prime step after the main push included
C13_ExitCodeFollowsResult ==
    ExitedAfterUpload =>
        /\ (exit_code = 0 \/ Marked(SUCCESS_MARKER)) =>
                all_successful(result) /\ result.error_message = NoneValue
        /\ result.error_message # NoneValue =>
                exit_code = 1 /\ Marked(ERROR_MARKER)

-----------------------------------------------------------------------------
(* Properties of the conflict resolution of upload_program *)

IsThreadCommand(c) == c.op \in {"pc_abort", "pc_kill"}

IsRcpCommand(c) == c.op \in {"rcp_hold", "kill_rcp"}

OpArg(c) == [op |-> c.op, arg |-> c.arg]

\* the abort and kill commands of the call, in the order issued
ThreadCommands ==
    LET sel == SelectSeq(cmds, IsThreadCommand)
    IN  [k \in DOMAIN sel |-> OpArg(sel[k])]

\* the hold and kill-RCP commands of the call, in the order issued
RcpCommands ==
    LET sel == SelectSeq(cmds, IsRcpCommand)
    IN  [k \in DOMAIN sel |-> OpArg(sel[k])]

\* the slots of the controller that exist under the name of the call
MatchingSlots ==
    {t \in DOMAIN threads :
        threads[t].is_exist /\ Lower(threads[t].name) = Lower(program_name)}

\* the abort and kill commands the slots of the controller ask for: those
\* of the first slot, in list order, under the name of the call
ThreadExpected ==
    LET matching == MatchingSlots
    IN  IF matching = {} THEN <<>>
        ELSE LET first == CHOOSE t \in matching : \A u \in matching : t <= u
                 slot == threads[first]
                 mask == 2 ^ (slot.thread_num - 1)
             IN  (IF slot.is_running
                  THEN <<[op |-> "pc_abort", arg |-> mask]>> ELSE <<>>)
                 \o <<[op |-> "pc_kill", arg |-> mask]>>

IsPrefix(s, t) ==
    Len(s) <= Len(t) /\ \A k \in DOMAIN s : s[k] = t[k]

\* the call has started and its last command failed with one of ops
StoppedAt(ops) ==
    /\ cmds # <<>>
    /\ ~cmds[Len(cmds)].ok
    /\ cmds[Len(cmds)].op \in ops

\* C14: the abort and kill commands of a call are those of the first slot,
\* in list order, that exists under program_name (case ignored): abort iff
\* it runs, then kill, both with 1 << (thread_num - 1); no other slot gets
\* a command, and none is issued when no slot matches.  A call issues them
\* all unless a status query or the abort failed
C14_FirstMatchingSlotOnly ==
    pc # "idle" =>
        LET issued == ThreadCommands
            expected == ThreadExpected
        IN  /\ IsPrefix(issued, expected)
            /\ Returned =>
                \/ issued = expected
                \/ StoppedAt({"get_pc_status", "get_rcp_status", "pc_abort"})

\* two running slots under the name of the call: the first is aborted and
\* killed, the second gets nothing, and the call goes on to its end
C14_Witness ==
    /\ Returned
    /\ Failed = {}
    /\ MatchingSlots = {1, 2}
    /\ threads[1].is_running /\ threads[2].is_running
    /\ ThreadCommands = <<[op |-> "pc_abort", arg |-> 1],
                          [op |-> "pc_kill", arg |-> 1]>>

RcpExpected ==
    IF rcp.is_exist /\ Lower(rcp.name) = Lower(program_name)
    THEN (IF rcp.is_running THEN <<[op |-> "rcp_hold", arg |-> 0]>> ELSE <<>>)
         \o <<[op |-> "kill_rcp", arg |-> 0]>>
    ELSE <<>>

\* C15: kill-RCP is issued iff the continuous-path status exists under
\* program_name (case ignored), hold iff it also runs, and hold comes before
\* kill-RCP: a running program of that name is never killed without a hold
\* before it, and one of another name gets neither.  A call issues them
\* unless an earlier command, or the hold, failed
C15_RcpHoldThenKill ==
    pc # "idle" =>
        /\ IsPrefix(RcpCommands, RcpExpected)
        /\ Returned =>
            \/ RcpCommands = RcpExpected
            \/ StoppedAt({"get_pc_status", "get_rcp_status", "pc_abort",
                          "pc_kill", "rcp_hold"})

\* a running continuous-path program reported in another case: held, then
\* killed, and the call goes on to its end
C15_Witness ==
    /\ Returned
    /\ Failed = {}
    /\ rcp.is_exist /\ rcp.is_running
    /\ rcp.name # program_name
    /\ RcpCommands = <<[op |-> "rcp_hold", arg |-> 0],
                       [op |-> "kill_rcp", arg |-> 0]>>

\* the call is past its two status queries
PastQueries ==
    pc \notin {"idle", "get_status_pc", "get_rcp_status"}
    /\ ~StoppedAt({"get_pc_status", "get_rcp_status"})

\* the call before this one fetched statuses
HadPrevious == prev_status.pg_status_list # <<>>

\* C16: in any sequence of calls each call first issues its own two status
\* queries, holds the statuses of the controller as they are at this call,
\* and its abort/kill/hold/kill-RCP commands are those the statuses of this
\* call ask for, whatever the call before it fetched
C16_StatusesOfThisCall ==
    /\ PastQueries =>
        /\ Len(cmds) >= 2
        /\ cmds[1].op = "get_pc_status" /\ cmds[1].ok
        /\ cmds[2].op = "get_rcp_status" /\ cmds[2].ok
        /\ pg_status_list = threads
        /\ rcp_status = rcp
    /\ pc # "idle" =>
        /\ IsPrefix(ThreadCommands, ThreadExpected)
        /\ IsPrefix(RcpCommands, RcpExpected)
    /\ (Returned /\ Failed = {}) =>
        /\ ThreadCommands = ThreadExpected
        /\ RcpCommands = RcpExpected

\* a later call, made after the first slot stopped running the program and
\* the continuous path started running it: the slot is killed without an
\* abort, the continuous path is held and killed
C16_Witness ==
    /\ Returned
    /\ Failed = {}
    /\ HadPrevious
    /\ prev_status.pg_status_list[1].is_exist
    /\ prev_status.pg_status_list[1].is_running
    /\ ~prev_status.rcp_status.is_exist
    /\ threads[1].is_exist /\ ~threads[1].is_running
    /\ rcp.is_exist /\ rcp.is_running
    /\ ThreadCommands = <<[op |-> "pc_kill", arg |-> 1]>>
    /\ RcpCommands = <<[op |-> "rcp_hold", arg |-> 0],
                       [op |-> "kill_rcp", arg |-> 0]>>

-----------------------------------------------------------------------------
(* Properties of the channel *)

\* C17: while execute_rcp or continue_rcp is suspended waiting for the
\* controller, no step of another operation of the instance puts a command
\* on the channel
C17_OneCommandOutstanding ==
    [][awaiting # NoneValue => Len(cmds') # Len(cmds) + 1]_vars

-----------------------------------------------------------------------------
(* Properties of the result of upload_program *)

\* C18: in every result of upload_program trans_points_exist equals
\* trans_points_uploaded and joints_points_exist equals
\* joints_points_uploaded, so all_successful() has the value of
\* program_uploaded, and a Trans, Joints or program_loaded flag that is true
\* comes with program_uploaded true
C18_ExistEqualsUploaded ==
    /\ result.trans_points_exist = result.trans_points_uploaded
    /\ result.joints_points_exist = result.joints_points_uploaded
    /\ all_successful(result) = result.program_uploaded
    /\ (\/ result.trans_points_uploaded
        \/ result.trans_points_exist
        \/ result.joints_points_uploaded
        \/ result.joints_points_exist
        \/ result.program_loaded) => result.program_uploaded

\* a call whose TRANS push succeeded and whose JOINTS push failed
C18_Witness ==
    /\ Returned
    /\ result.trans_points_uploaded
    /\ JointsSection # <<>>
    /\ ~result.joints_points_uploaded
    /\ Pushes(JointsSection) # {}
    /\ all_successful(result)

\* the slot's kill was issued, after its abort if it runs
SlotStopped(t) ==
    LET mask == 2 ^ (threads[t].thread_num - 1)
    IN  \E k \in Issued("pc_kill") :
            /\ cmds[k].arg = mask
            /\ threads[t].is_running => IssuedBefore("pc_abort", mask, k)

\* every slot under the name of the call was stopped and killed, and so
\* was the continuous path if it holds that name
AllStopped ==
    /\ \A t \in MatchingSlots : SlotStopped(t)
    /\ RcpExpected # <<>> => RcpCommands = RcpExpected

\* C19: whatever the text, every thread slot and the continuous-path slot
\* matching program_name has got its abort/hold and kill when the Program
\* section is about to be extracted, so a call that ends with the not-found
\* or the invalid-program error has stopped and killed the matching program
\* and has uploaded nothing
C19_StopsBeforeExtraction ==
    /\ pc = "main_program" => AllStopped
    /\ (Returned /\ result.error_message \in {NotFound, NotValid}) =>
        /\ AllStopped
        /\ Issued("upload_program") = {}
        /\ Issued("rcp_prime") = {}
        /\ ~result.program_uploaded

StopCommands ==
    Issued("pc_abort") \cup Issued("pc_kill")
        \cup Issued("rcp_hold") \cup Issued("kill_rcp")

\* C20: a stop command is issued only after both status queries of the call
\* succeeded; a call whose continuous-path status query fails returns with
\* error_message set and every flag false, having issued no stop command
C20_NoStopWithoutBothStatuses ==
    /\ StopCommands # {} =>
        /\ cmds[1].op = "get_pc_status" /\ cmds[1].ok
        /\ cmds[2].op = "get_rcp_status" /\ cmds[2].ok
        /\ \A k \in StopCommands : k > 2
    /\ (\E k \in Issued("get_rcp_status") : ~cmds[k].ok) =>
        /\ Returned
        /\ result = [NewResult EXCEPT !.error_message = ChannelError]
        /\ StopCommands = {}
        /\ Len(cmds) = 2

\* the continuous-path status query failed while a thread slot runs the
\* program: the call is over and the slot was left alone
C20_Witness ==
    /\ Returned
    /\ Len(cmds) = 2
    /\ cmds[1].ok
    /\ ~cmds[2].ok
    /\ \E t \in MatchingSlots : threads[t].is_running
    /\ result.error_message # NoneValue

====
